---------------------------- MODULE Spec2Model ----------------------------
(***************************************************************************)
(* A model of the YPP payments explorer (kdembler/ypp-explorer).           *)
(*                                                                         *)
(*   Payments.tsx  (src/unnamed/part_000)  formatJoy, fetchPayments and    *)
(*                 the CreatorPaymentsExplorer component                   *)
(*   App.tsx       the QueryClient and the IndexedDB persister             *)
(*   payments.ts   the paginated GraphQL query                             *)
(*                                                                         *)
(* Three specifications share the module:                                  *)
(*   Spec      the "payments" query: restore of the persisted client,      *)
(*             mount, reload, the page loop of fetchPayments, retries      *)
(*   ViewSpec  the component's view state over a fetched collection:       *)
(*             aggregation, default sorting, header clicks, filter         *)
(*   FmtSpec   formatJoy on decimal strings                                *)
(***************************************************************************)
EXTENDS Integers, Sequences, FiniteSets, TLC

VARIABLES
    \* ---- Spec: the query layer -------------------------------------------
    remoteN,        \* number of events the remote collection holds
    idb,            \* the persisted client under the key "reactQuery"
    isRestoring,    \* PersistQueryClientProvider is still restoring
    query,          \* the state of the query ["payments"]
    retryTimer,     \* the retryer sleeps before re-running the queryFn
    runs,           \* invocations of fetchPayments that are executing
    lastRun,        \* history: how the last finished invocation ended
    reloaded,       \* history: the reload button has been clicked
    cachedAtStartup,     \* history: a persisted result existed at startup
    \* ---- ViewSpec: the component ------------------------------------------
    payments,       \* useQuery's data as the component sees it
    groupByChannel, \* useState(true)
    globalFilter,   \* useState("")
    sorting,        \* the table's sorting state
    headerClicked,  \* history: the user clicked a column header
    \* ---- FmtSpec ------------------------------------------------------------
    raw,            \* the argument of formatJoy, a sequence of digits
    formatted       \* its result, a sequence of characters (<<>>: not yet)

qvars    == <<remoteN, idb, isRestoring, query, retryTimer, runs, lastRun,
              reloaded, cachedAtStartup>>
viewvars == <<payments, groupByChannel, globalFilter, sorting, headerClicked>>
fmtvars  == <<raw, formatted>>
vars     == <<qvars, viewvars, fmtvars>>

Min(a, b) == IF a < b THEN a ELSE b
Max(a, b) == IF a > b THEN a ELSE b

(***************************************************************************)
(* Bounds of the model.                                                    *)
(***************************************************************************)
MaxFullPages == 2     \* the remote collection holds at most this many full pages
Remainder    == 3     \* ... plus either nothing or this many events
NewSince     == 1     \* events appended since the persisted snapshot was taken
MaxEvents    == 3     \* ViewSpec: events in the fetched collection
MaxLeading   == 3     \* FmtSpec: leading digits of an amount before its zeros

(***************************************************************************)
(* fetchPayments                                                           *)
(***************************************************************************)
limit == 5000

\* The remote collection: event i is the i-th event in inBlock_ASC order.  A
\* page is the set of the events it holds (the server orders them), and a
\* fetched collection is the sequence of its non-empty pages, in the order
\* they were pushed.
PagesOf(n) ==
    [k \in 1..((n + limit - 1) \div limit) |->
        ((k - 1) * limit + 1)..Min(k * limit, n)]

Remote == PagesOf(remoteN)

Count(pages) == IF pages = <<>> THEN 0
                ELSE (Len(pages) - 1) * limit + Cardinality(pages[Len(pages)])

RemoteSizes == { p * limit + r : p \in 0..MaxFullPages, r \in {0, Remainder} }

\* channelPaymentMadeEvents(limit, offset, orderBy: inBlock_ASC)
ServerPage(offset) == (offset + 1)..Min(offset + limit, remoteN)

\* const allPayments = []; let offset = 0; the first request is issued
\* before the first await.
NewRun == [offset |-> 0, allPayments |-> <<>>, requests |-> <<0>>,
           attached |-> TRUE]

\* if (newPayments.length < limit) break;
IsLastPageLE(newPayments) == Cardinality(newPayments) <= limit
IsLastPage(newPayments) == Cardinality(newPayments) < limit

\* allPayments.push(...newPayments): nothing is pushed for an empty page
Push(allPayments, newPayments) ==
    IF newPayments = {} THEN allPayments ELSE Append(allPayments, newPayments)

\* allPayments.push(...newPayments); ...; offset += limit; next request
AfterPage(run, newPayments) ==
    [run EXCEPT !.allPayments = Push(@, newPayments),
                !.offset      = @ + limit,
                !.requests    = Append(@, run.offset + limit)]

\* What the caller of fetchPayments receives when a request throws: the
\* rejection only; allPayments is a local of the abandoned invocation.
RejectionKeepsPages(run) ==
    [state |-> "resolved", events |-> run.allPayments, requests |-> run.requests]
Rejection(run) ==
    [state |-> "rejected", events |-> <<>>, requests |-> run.requests]

\* return allPayments
Resolution(run, newPayments) ==
    [state |-> "resolved", events |-> Push(run.allPayments, newPayments),
     requests |-> run.requests]

RemoveAt(s, i) == SubSeq(s, 1, i - 1) \o SubSeq(s, i + 1, Len(s))


(***************************************************************************)
(* The query ["payments"]: useQuery({queryKey, queryFn: fetchPayments,     *)
(* staleTime: Infinity, gcTime: Infinity}) under PersistQueryClientProvider*)
(* with persistOptions {persister}.  Options the code leaves out keep the  *)
(* library's defaults: retry 3, refetchOnWindowFocus true, maxAge 24 h.    *)
(***************************************************************************)
retry == 3

NoData       == [has |-> FALSE, events |-> <<>>]
SomeData(ev) == [has |-> TRUE, events |-> ev]

NoClient == [present |-> FALSE, expired |-> FALSE, events |-> <<>>]

\* The result of an earlier session's fetch, taken NewSince events ago.
Snapshot == PagesOf(Max(0, remoteN - NewSince))

NoRun == [state |-> "none", events |-> <<>>, requests |-> <<>>]

\* persistClient: dehydrate keeps only queries whose status is "success".
Persist(q) ==
    IF q.status = "success"
    THEN [present |-> TRUE, expired |-> FALSE, events |-> q.data.events]
    ELSE NoClient

\* restoreClient: a client older than maxAge is removed, not hydrated.
Restored(client) ==
    IF client.present /\ client.expired THEN NoClient ELSE client

\* hydrate: the persisted state is taken unless the cache holds newer data.
Hydrate(q, client) ==
    IF client.present /\ ~q.data.has
    THEN [q EXCEPT !.data = SomeData(client.events), !.status = "success",
                   !.error = FALSE]
    ELSE q

\* const { data: payments, isLoading, isFetching, error, refetch } = useQuery
isFetching(q) == q.fetchStatus = "fetching"
isLoading(q)  == isFetching(q) /\ q.status = "pending"

\* if (isLoading) return Loading; if (error) return Alert; return the table
Screen(q) ==
    IF isLoading(q) THEN "loading"
    ELSE IF q.error THEN "error"
    ELSE "table"

\* <Button onClick={() => refetch()} disabled={isLoading || isFetching}>
ReloadDisabledLoadingOnly(q) == isLoading(q)
ReloadDisabled(q) == isLoading(q) \/ isFetching(q)

\* The button is on screen with the table only.  The restore, one read of
\* the local IndexedDB, is taken to end before the user acts.
ReloadClickable ==
    ~isRestoring /\ Screen(query) = "table" /\ ~ReloadDisabled(query)

\* The 'fetch' action of the query's reducer.
FetchState(q) ==
    IF q.data.has
    THEN [q EXCEPT !.fetchStatus = "fetching", !.fetchFailureCount = 0]
    ELSE [q EXCEPT !.fetchStatus = "fetching", !.fetchFailureCount = 0,
                   !.status = "pending", !.error = FALSE]

Detach(rs) == [i \in 1..Len(rs) |-> [rs[i] EXCEPT !.attached = FALSE]]

\* query.fetch: a fetch already running is joined, unless the caller asks to
\* cancel it (refetch() does) and the query has data; a cancelled invocation
\* of fetchPayments keeps running, its outcome is dropped.
FetchStart(q, rs, timer, cancelRefetch) ==
    IF q.fetchStatus # "idle"
    THEN IF q.data.has /\ cancelRefetch
         THEN [query |-> FetchState(q), runs |-> Append(Detach(rs), NewRun),
               timer |-> FALSE]
         ELSE [query |-> q, runs |-> rs, timer |-> timer]
    ELSE [query |-> FetchState(q), runs |-> Append(rs, NewRun), timer |-> FALSE]

\* The retryer on the outcome of a fetchPayments invocation it listens to.
Settled(q, outcome) ==
    IF outcome.state = "resolved"
    THEN [query |-> [q EXCEPT !.data = SomeData(outcome.events),
                              !.status = "success", !.error = FALSE,
                              !.fetchStatus = "idle", !.fetchFailureCount = 0],
          timer |-> FALSE]
    ELSE IF q.fetchFailureCount < retry
    THEN [query |-> [q EXCEPT !.fetchFailureCount = @ + 1], timer |-> TRUE]
    ELSE [query |-> [q EXCEPT !.error = TRUE, !.status = "error",
                              !.fetchStatus = "idle", !.fetchFailureCount = @ + 1],
          timer |-> FALSE]


(***************************************************************************)
(* The component's view of a fetched collection.  In ViewSpec an event is  *)
(* a record {id, amount, inBlock, payeeChannel}; payeeChannel is nullable. *)
(***************************************************************************)
NullChannel == [isNull |-> TRUE, id |-> "", title |-> ""]
Channel(id, title) == [isNull |-> FALSE, id |-> id, title |-> title]

ChannelPool == { NullChannel, Channel("2", "Beta"), Channel("10", "Alpha"),
                 Channel("x", "") }
Amounts == {1, 2}

\* The integer a property key denotes when it is an array index (a canonical
\* decimal string), -1 otherwise.
ArrayIndex(key) ==
    CASE key = "2"  -> 2
      [] key = "10" -> 10
      [] OTHER      -> -1

\* Event collections a fetch can return: ids and blocks ascend with position.
EventLists ==
    UNION { { [i \in 1..n |-> [id |-> i, inBlock |-> i, amount |-> f[i].amount,
                               payeeChannel |-> f[i].payeeChannel]] :
              f \in [1..n -> [amount : Amounts, payeeChannel : ChannelPool]] } :
            n \in 0..MaxEvents }

IndexIn(acc, channelId) ==
    IF \E k \in 1..Len(acc) : acc[k].channelId = channelId
    THEN CHOOSE k \in 1..Len(acc) : acc[k].channelId = channelId
    ELSE 0

\* payment.payeeChannel?.title || "Unknown"
TitleOf(channel) ==
    IF channel.isNull \/ channel.title = "" THEN "Unknown" ELSE channel.title

\* The reduce callback on an event whose payeeChannel is an object: acc is
\* kept as the list of its own properties in creation order.
ReduceStep(acc, payment) ==
    LET channelId == payment.payeeChannel.id
        k         == IndexIn(acc, channelId)
        acc1      == IF k = 0
                     THEN Append(acc, [channelId    |-> channelId,
                                       channelTitle |-> TitleOf(payment.payeeChannel),
                                       totalAmount  |-> 0,
                                       count        |-> 0])
                     ELSE acc
        j         == IF k = 0 THEN Len(acc1) ELSE k
    IN [acc1 EXCEPT ![j].totalAmount = @ + payment.amount,
                    ![j].count       = @ + 1]

\* payment.payeeChannel!.id: the assertion is erased at compile time, reading
\* .id of null throws a TypeError.
ChannelIdThrows(payment) == payment.payeeChannel.isNull

\* payments.reduce(callback, {}): [threw, acc]
RECURSIVE Reduce(_, _, _)
Reduce(events, i, acc) ==
    IF i > Len(events) THEN [threw |-> FALSE, acc |-> acc]
    ELSE IF ChannelIdThrows(events[i]) THEN [threw |-> TRUE, acc |-> <<>>]
    ELSE Reduce(events, i + 1, ReduceStep(acc, events[i]))

\* Insertion of an aggregate among those whose keys are array indices.
RECURSIVE InsertByIndex(_, _)
InsertByIndex(sorted, a) ==
    IF sorted = <<>> THEN <<a>>
    ELSE IF ArrayIndex(a.channelId) < ArrayIndex(Head(sorted).channelId)
    THEN <<a>> \o sorted
    ELSE <<Head(sorted)>> \o InsertByIndex(Tail(sorted), a)

RECURSIVE IndexKeysAscending(_)
IndexKeysAscending(acc) ==
    IF acc = <<>> THEN <<>>
    ELSE IF ArrayIndex(Head(acc).channelId) >= 0
    THEN InsertByIndex(IndexKeysAscending(Tail(acc)), Head(acc))
    ELSE IndexKeysAscending(Tail(acc))

\* Object.values(acc): own properties whose keys are array indices first, in
\* ascending numeric order, then the other string keys in creation order.
ObjectValuesInCreationOrder(acc) == acc
ObjectValues(acc) ==
    IndexKeysAscending(acc) \o SelectSeq(acc, LAMBDA a : ArrayIndex(a.channelId) < 0)

\* const groupedPayments = useMemo(...): [threw, rows]
groupedPayments(events) ==
    LET r == Reduce(events, 1, <<>>)
    IN IF r.threw THEN [threw |-> TRUE, rows |-> <<>>]
       ELSE [threw |-> FALSE, rows |-> ObjectValues(r.acc)]

\* The column ids of the two schemas (accessorKey, dots as underscores).
Columns(grouped) ==
    IF grouped THEN {"channelId", "channelTitle", "totalAmount", "count"}
    ELSE {"id", "payeeChannel_id", "payeeChannel_title", "amount", "inBlock",
          "rationale"}

\* The headers that are clicked: the columns whose values are numbers, which
\* sort with the basic comparison and descending first.
ClickableHeaders(grouped) ==
    IF grouped THEN {"totalAmount", "count"} ELSE {"inBlock"}

\* row.getValue(columnId) for the columns the model sorts by
Value(row, col) ==
    CASE col = "totalAmount" -> row.totalAmount
      [] col = "count"       -> row.count
      [] col = "amount"      -> row.amount
      [] col = "inBlock"     -> row.inBlock

\* const data = useMemo(() => groupByChannel ? groupedPayments : payments || [])
Data == IF groupByChannel THEN groupedPayments(payments).rows ELSE payments

RowTitle(row) ==
    IF groupByChannel THEN row.channelTitle ELSE row.payeeChannel.title

\* getFilteredRowModel with the global filter: an empty filter keeps every
\* row; the texts typed are whole channel titles, which no other cell of
\* the pool contains.
FilterTexts == {"", "Alpha"}
Filtered(rows) ==
    IF globalFilter = "" THEN rows
    ELSE SelectSeq(rows, LAMBDA r : RowTitle(r) = globalFilter)

\* getSortedRowModel: sorting entries whose column is not in the table are
\* dropped; the sort is stable.
AvailableSorting == SelectSeq(sorting, LAMBDA e : e.id \in Columns(groupByChannel))

Before(a, b, entry) ==
    IF entry.desc THEN Value(a, entry.id) > Value(b, entry.id)
    ELSE Value(a, entry.id) < Value(b, entry.id)

RECURSIVE InsertRow(_, _, _)
InsertRow(sorted, r, entry) ==
    IF sorted = <<>> THEN <<r>>
    ELSE IF Before(r, Head(sorted), entry)
    THEN <<r>> \o sorted
    ELSE <<Head(sorted)>> \o InsertRow(Tail(sorted), r, entry)

\* Rows are inserted last to first, so that equal keys keep their order.
RECURSIVE SortRows(_, _)
SortRows(rows, entry) ==
    IF rows = <<>> THEN <<>>
    ELSE InsertRow(SortRows(Tail(rows), entry), Head(rows), entry)

Sorted(rows) ==
    IF rows = <<>> \/ AvailableSorting = <<>> THEN rows
    ELSE SortRows(rows, AvailableSorting[1])

\* The render throws when the memo of groupedPayments does.
RenderThrows == groupedPayments(payments).threw

\* const { rows } = table.getRowModel()
RowsShown == IF RenderThrows THEN <<>> ELSE Sorted(Filtered(Data))

\* initialState: { sorting: [{ id: "totalAmount", desc: true }] }
InitialSorting == <<[id |-> "totalAmount", desc |-> TRUE]>>

\* The input, the two buttons and the headers are rendered with the table.
ControlsOnScreen ==
    ~isRestoring /\ Screen(query) = "table" /\ ~RenderThrows


(***************************************************************************)
(* formatJoy: `${dn.format([BigInt(raw), 10], { digits: 2 })} JOY`.        *)
(* A string is the sequence of its characters; a bigint is the sequence of *)
(* its decimal digits, most significant first, without leading zeros.      *)
(***************************************************************************)
DigitChars == <<"0", "1", "2", "3", "4", "5", "6", "7", "8", "9">>

DigitChar(d) == DigitChars[d + 1]
DigitVal(c)  == CHOOSE d \in 0..9 : DigitChars[d + 1] = c

Zeros(n) == [i \in 1..n |-> 0]

RECURSIVE StripLeadingZeros(_)
StripLeadingZeros(ds) ==
    IF Len(ds) > 1 /\ Head(ds) = 0 THEN StripLeadingZeros(Tail(ds)) ELSE ds

RECURSIVE StripTrailingZeros(_)
StripTrailingZeros(ds) ==
    IF ds # <<>> /\ ds[Len(ds)] = 0
    THEN StripTrailingZeros(SubSeq(ds, 1, Len(ds) - 1))
    ELSE ds

PadLeft(ds, n) == Zeros(Max(0, n - Len(ds))) \o ds

\* BigInt(raw) for a string of decimal digits; the empty string is 0n.
BigInt(str) ==
    StripLeadingZeros(PadLeft([i \in 1..Len(str) |-> DigitVal(str[i])], 1))

RECURSIVE Increment(_)
Increment(ds) ==
    IF ds = <<>> THEN <<1>>
    ELSE IF ds[Len(ds)] < 9
    THEN [ds EXCEPT ![Len(ds)] = @ + 1]
    ELSE Increment(SubSeq(ds, 1, Len(ds) - 1)) \o <<0>>

decimals == 10
digits   == 2

\* The default rounding of the library, ROUND_HALF: the dropped part counts
\* up from one half.
RoundsUpNever(firstDropped) == FALSE
RoundsUp(firstDropped) == firstDropped >= 5

\* The value scaled from `decimals` to `digits` fractional digits.
Rescaled(value) ==
    LET v    == PadLeft(value, decimals - digits + 1)
        kept == SubSeq(v, 1, Len(v) - (decimals - digits))
        next == v[Len(v) - (decimals - digits) + 1]
    IN StripLeadingZeros(IF RoundsUp(next) THEN Increment(kept) ELSE kept)

WholePart(scaled) ==
    LET v == PadLeft(scaled, digits + 1)
    IN StripLeadingZeros(SubSeq(v, 1, Len(v) - digits))

\* trailingZeros is left at its default, false: the zeros that end the
\* fraction are dropped.
FractionPadded(scaled) ==
    LET v == PadLeft(scaled, digits + 1)
    IN SubSeq(v, Len(v) - digits + 1, Len(v))
FractionPart(scaled) == StripTrailingZeros(FractionPadded(scaled))

\* The whole part is printed with the digit grouping of the en-US locale.
RECURSIVE Grouped(_)
Grouped(ds) ==
    IF Len(ds) <= 3 THEN [i \in 1..Len(ds) |-> DigitChar(ds[i])]
    ELSE Grouped(SubSeq(ds, 1, Len(ds) - 3)) \o <<",">>
         \o [i \in 1..3 |-> DigitChar(ds[Len(ds) - 3 + i])]

\* dn.format([value, 10], { digits: 2 })
Format(value) ==
    LET scaled   == Rescaled(value)
        fraction == FractionPart(scaled)
    IN Grouped(WholePart(scaled))
       \o (IF fraction = <<>> THEN <<>>
           ELSE <<".">> \o [i \in 1..Len(fraction) |-> DigitChar(fraction[i])])

formatJoy(str) == Format(BigInt(str)) \o <<" ", "J", "O", "Y">>

\* The amounts formatted: up to MaxLeading digits followed by a run of
\* zeros, and the amounts the documentation names.
LeadingDigits == {"1", "4", "5", "9"}
TrailingZeroRuns == {0, 7, 8, 9, 10, 13, 17}

Str(ds) == [i \in 1..Len(ds) |-> DigitChar(ds[i])]

RawInputs ==
    { lead \o Str(Zeros(z)) :
        lead \in UNION { [1..n -> LeadingDigits] : n \in 1..MaxLeading },
        z \in TrailingZeroRuns }
    \cup { <<"0">>,
           Str(<<1,2,3,4,5,6,7,8,9,0,1,2,3,4>>),
           Str(<<9,9,9,9,9,9,9,9,9,9,5>>),
           Str(<<1,8,4,4,6,7,4,4,0,7,3,7,0,9,5,5,1,6,1,6>>) }

QInit ==
    /\ remoteN \in RemoteSizes
    /\ idb \in { NoClient,
                 [present |-> TRUE, expired |-> FALSE, events |-> Snapshot],
                 [present |-> TRUE, expired |-> TRUE,  events |-> Snapshot] }
    /\ isRestoring = TRUE
    /\ query = [data |-> NoData, status |-> "pending", fetchStatus |-> "idle",
                error |-> FALSE, fetchFailureCount |-> 0]
    /\ retryTimer = FALSE
    /\ runs = <<>>
    /\ lastRun = NoRun
    /\ reloaded = FALSE
    /\ cachedAtStartup = idb.present

\* The view and the formatter at rest, for the specifications that do not
\* exercise them.
ViewIdle ==
    /\ payments = <<>>
    /\ groupByChannel = TRUE
    /\ globalFilter = ""
    /\ sorting = InitialSorting
    /\ headerClicked = FALSE

FmtIdle == raw = <<>> /\ formatted = <<>>

Init == QInit /\ ViewIdle /\ FmtIdle

\* persistQueryClientRestore, then setIsRestoring(false): the observer
\* subscribes and fetches on mount when the query has no data.
RestoreClient ==
    /\ isRestoring
    /\ LET client == Restored(idb)
           hq     == Hydrate(query, client)
           f      == IF hq.data.has
                     THEN [query |-> hq, runs |-> runs, timer |-> retryTimer]
                     ELSE FetchStart(hq, runs, retryTimer, FALSE)
       IN /\ isRestoring' = FALSE
          /\ query' = f.query
          /\ runs' = f.runs
          /\ retryTimer' = f.timer
          /\ idb' = IF f.query = hq THEN client ELSE Persist(f.query)
    /\ UNCHANGED <<remoteN, lastRun, reloaded,
                   cachedAtStartup, viewvars, fmtvars>>

\* onClick={() => refetch()}
ClickReload ==
    /\ ReloadClickable
    /\ LET f == FetchStart(query, runs, retryTimer, TRUE)
       IN /\ query' = f.query
          /\ runs' = f.runs
          /\ retryTimer' = f.timer
          /\ idb' = IF f.query = query THEN idb ELSE Persist(f.query)
    /\ reloaded' = TRUE
    /\ UNCHANGED <<remoteN, isRestoring, lastRun, cachedAtStartup,
                   viewvars, fmtvars>>

\* A fetchPayments invocation ends with `outcome`.
Finish(i, outcome) ==
    /\ runs' = RemoveAt(runs, i)
    /\ lastRun' = outcome
    /\ IF runs[i].attached
       THEN LET s == Settled(query, outcome)
            IN /\ query' = s.query
               /\ retryTimer' = s.timer
               /\ idb' = Persist(s.query)
       ELSE UNCHANGED <<query, retryTimer, idb>>

\* const response = await request(...): the page arrives.
PageResponse ==
    /\ \E i \in 1..Len(runs) :
         LET newPayments == ServerPage(runs[i].offset)
         IN IF IsLastPage(newPayments)
            THEN Finish(i, Resolution(runs[i], newPayments))
            ELSE /\ runs' = [runs EXCEPT ![i] = AfterPage(runs[i], newPayments)]
                 /\ UNCHANGED <<query, retryTimer, idb, lastRun>>
    /\ UNCHANGED <<remoteN, isRestoring, reloaded,
                   cachedAtStartup, viewvars, fmtvars>>

\* await request(...) throws: fetchPayments has no try/catch.
PageFailure ==
    /\ \E i \in 1..Len(runs) : Finish(i, Rejection(runs[i]))
    /\ UNCHANGED <<remoteN, isRestoring, reloaded,
                   cachedAtStartup, viewvars, fmtvars>>

\* The retry delay elapsed: the retryer calls fetchPayments again.
RetryFire ==
    /\ retryTimer
    /\ retryTimer' = FALSE
    /\ runs' = Append(runs, NewRun)
    /\ UNCHANGED <<remoteN, idb, isRestoring, query, lastRun, reloaded,
                   cachedAtStartup, viewvars, fmtvars>>

\* refetchOnWindowFocus: a stale query (staleTime Infinity: one without
\* data) is fetched again when the window regains focus.
WindowFocus ==
    /\ ~isRestoring
    /\ ~query.data.has
    /\ LET f == FetchStart(query, runs, retryTimer, FALSE)
       IN /\ query' = f.query
          /\ runs' = f.runs
          /\ retryTimer' = f.timer
          /\ idb' = IF f.query = query THEN idb ELSE Persist(f.query)
    /\ UNCHANGED <<remoteN, isRestoring, lastRun, reloaded,
                   cachedAtStartup, viewvars, fmtvars>>

\* onClick={() => setGroupByChannel(!groupByChannel)}
ToggleGroup ==
    /\ ControlsOnScreen
    /\ groupByChannel' = ~groupByChannel
    /\ UNCHANGED <<qvars, fmtvars, payments, globalFilter, sorting, headerClicked>>

\* onChange={(e) => setGlobalFilter(e.target.value)}
SetFilter ==
    /\ ControlsOnScreen
    /\ \E text \in FilterTexts : globalFilter' = text
    /\ UNCHANGED <<qvars, fmtvars, payments, groupByChannel, sorting, headerClicked>>

\* column.toggleSorting() without the shift key: a column that is not
\* sorted gets its first direction (descending for numbers) and replaces
\* the others, the first direction turns into the second, and the second is
\* removed.
NextSorting(col) ==
    LET mine == SelectSeq(sorting, LAMBDA e : e.id = col)
    IN IF mine = <<>> THEN <<[id |-> col, desc |-> TRUE]>>
       ELSE IF mine[1].desc THEN <<[id |-> col, desc |-> FALSE]>>
       ELSE <<>>

\* onClick={header.column.getToggleSortingHandler()}
HeaderClick ==
    /\ ControlsOnScreen
    /\ \E col \in ClickableHeaders(groupByChannel) : sorting' = NextSorting(col)
    /\ headerClicked' = TRUE
    /\ UNCHANGED <<qvars, fmtvars, payments, groupByChannel, globalFilter>>

Next ==
    \/ RestoreClient
    \/ ClickReload
    \/ PageResponse
    \/ PageFailure
    \/ RetryFire
    \/ WindowFocus
    \/ ToggleGroup
    \/ SetFilter
    \/ HeaderClick

Spec == Init /\ [][Next]_vars

\* ViewSpec: the component over a collection that has been fetched.
ViewInit ==
    /\ payments \in EventLists
    /\ remoteN = Len(payments)
    /\ isRestoring = FALSE
    /\ query = [data |-> SomeData(Remote), status |-> "success",
                fetchStatus |-> "idle", error |-> FALSE, fetchFailureCount |-> 0]
    /\ idb = Persist(query)
    /\ retryTimer = FALSE
    /\ runs = <<>>
    /\ lastRun = NoRun
    /\ reloaded = FALSE
    /\ cachedAtStartup = FALSE
    /\ groupByChannel = TRUE
    /\ globalFilter = ""
    /\ sorting = InitialSorting
    /\ headerClicked = FALSE
    /\ FmtIdle

ViewNext == ToggleGroup \/ SetFilter \/ HeaderClick

ViewSpec == ViewInit /\ [][ViewNext]_vars


\* FmtSpec: formatJoy applied to an amount.
FmtInit ==
    /\ raw \in RawInputs
    /\ formatted = <<>>
    /\ remoteN = 0
    /\ idb = NoClient
    /\ isRestoring = TRUE
    /\ query = [data |-> NoData, status |-> "pending", fetchStatus |-> "idle",
                error |-> FALSE, fetchFailureCount |-> 0]
    /\ retryTimer = FALSE
    /\ runs = <<>>
    /\ lastRun = NoRun
    /\ reloaded = FALSE
    /\ cachedAtStartup = FALSE
    /\ ViewIdle

\* cell: (cell) => formatJoy(cell.getValue())
FormatCell ==
    /\ formatted = <<>>
    /\ formatted' = formatJoy(raw)
    /\ UNCHANGED <<raw, qvars, viewvars>>

FmtNext == FormatCell

FmtSpec == FmtInit /\ [][FmtNext]_vars

(***************************************************************************)
(* Properties of the query layer, checked under Spec.                      *)
(***************************************************************************)
OffsetsOf(k) == [i \in 1..k |-> (i - 1) * limit]

\* C1: every executing invocation of fetchPayments has issued its requests
\* one after the other at offsets 0, 5000, 10000, ..., holds exactly the full
\* pages before its current offset, in order, and never asks beyond the first
\* short page; an invocation that returned has returned the whole remote
\* collection of N events after exactly floor(N / 5000) + 1 requests.
PaginationContract ==
    /\ \A i \in 1..Len(runs) :
         LET k == Len(runs[i].requests)
         IN /\ runs[i].requests = OffsetsOf(k)
            /\ runs[i].offset = (k - 1) * limit
            /\ runs[i].offset <= remoteN
            /\ runs[i].allPayments = PagesOf(runs[i].offset)
    /\ lastRun.state = "resolved" =>
         /\ lastRun.events = Remote
         /\ Count(lastRun.events) = remoteN
         /\ lastRun.requests = OffsetsOf(remoteN \div limit + 1)

\* C1 witness: pages of sizes [5000, 5000, 0] gave 10000 events after a
\* trailing empty request.
TrailingEmptyPageFetched ==
    /\ lastRun.state = "resolved"
    /\ lastRun.requests = <<0, 5000, 10000>>
    /\ Count(lastRun.events) = 10000

\* C2: at most one invocation of fetchPayments is executing, and it is the
\* one the query listens to.
AtMostOneFetchInFlight ==
    /\ Len(runs) <= 1
    /\ \A i \in 1..Len(runs) : runs[i].attached /\ isFetching(query)
    /\ retryTimer => runs = <<>>

\* C2 witness: a reload is pending over a dataset; the table is on screen
\* and its reload button is disabled.
ReloadPendingButtonDisabled ==
    /\ reloaded
    /\ Len(runs) = 1
    /\ query.data.has
    /\ Screen(query) = "table"
    /\ ReloadDisabled(query)

\* C3 as claimed: after a fetch failed over an existing dataset, the dataset
\* is one a fetch completed with and the table showing it is on screen.
FailedFetchKeepsDatasetVisible ==
    (query.status = "error" /\ query.data.has) =>
        /\ query.data.events \in {Snapshot, Remote}
        /\ Screen(query) = "table"

\* C4 as claimed: once a page request of the current fetch has failed, no
\* page request is in flight and none is scheduled.
NoRequestAfterFailedRequest ==
    (isFetching(query) /\ query.fetchFailureCount > 0) =>
        (runs = <<>> /\ ~retryTimer)

\* C4 as amended: an invocation that failed handed its caller the error and
\* no page; the query re-invokes fetchPayments at most `retry` times and
\* every invocation starts again at offset 0; the collection the application
\* holds or persists is absent or the complete result of one fetch.
FetchAbortsAndOnlyCompleteResultsAreKept ==
    /\ lastRun.state = "rejected" => lastRun.events = <<>>
    /\ query.fetchFailureCount <= retry + 1
    /\ isFetching(query) => query.fetchFailureCount <= retry
    /\ \A i \in 1..Len(runs) : runs[i].requests[1] = 0
    /\ query.data.has => query.data.events \in {Snapshot, Remote}
    /\ idb.present => idb.events \in {Snapshot, Remote}

\* C4 witness: a fetch failed on its second page for the last time; the
\* error is surfaced.
SecondPageFailedForGood ==
    /\ lastRun.state = "rejected"
    /\ lastRun.requests = <<0, 5000>>
    /\ query.status = "error"
    /\ query.fetchFailureCount = retry + 1

\* C8 as claimed: a request is in flight only if no persisted result
\* existed at startup or the user has clicked reload.
FetchOnlyWithoutCacheOrOnReload ==
    runs # <<>> => (~cachedAtStartup \/ reloaded)

(***************************************************************************)
(* Properties of the view, checked under ViewSpec.                         *)
(***************************************************************************)
RECURSIVE SumOf(_, _)
SumOf(rows, col) ==
    IF rows = <<>> THEN 0 ELSE Value(Head(rows), col) + SumOf(Tail(rows), col)

NullAt == { i \in 1..Len(payments) : payments[i].payeeChannel.isNull }

ChannelIdsPresent ==
    { payments[i].payeeChannel.id : i \in (1..Len(payments)) \ NullAt }

FirstSeen(channelId) ==
    CHOOSE i \in 1..Len(payments) :
        /\ ~payments[i].payeeChannel.isNull
        /\ payments[i].payeeChannel.id = channelId
        /\ \A j \in 1..(i - 1) :
             payments[j].payeeChannel.isNull \/ payments[j].payeeChannel.id # channelId

\* C5 as claimed: the aggregation of any collection yields aggregates whose
\* totals sum to the sum of the amounts and whose counts sum to the number
\* of events.
Conservation ==
    LET g == groupedPayments(payments)
    IN /\ ~g.threw
       /\ SumOf(g.rows, "totalAmount") = SumOf(payments, "amount")
       /\ SumOf(g.rows, "count") = Len(payments)

\* C6 as claimed: a collection with an event without channel is aggregated
\* and rendered, its channel-less events counted in an "Unknown" bucket.
NullChannelCountedAsUnknown ==
    NullAt # {} =>
        /\ ~RenderThrows
        /\ \E k \in 1..Len(groupedPayments(payments).rows) :
             LET a == groupedPayments(payments).rows[k]
             IN a.channelTitle = "Unknown" /\ a.count >= Cardinality(NullAt)

IsDescending(rows, col) ==
    \A i \in 1..(Len(rows) - 1) : Value(rows[i], col) >= Value(rows[i + 1], col)

\* C7 as claimed: while no header has been clicked the rows on screen
\* descend by totalAmount in the grouped view and by amount in the flat one.
DefaultSortIsAmountDescending ==
    (~headerClicked /\ ~RenderThrows) =>
        IsDescending(RowsShown, IF groupByChannel THEN "totalAmount" ELSE "amount")

JOY == <<" ", "J", "O", "Y">>

\* The text of a result without its " JOY".
Number(out) == SubSeq(out, 1, Len(out) - 4)

PointAt(num) ==
    IF \E i \in 1..Len(num) : num[i] = "." 
    THEN CHOOSE i \in 1..Len(num) : num[i] = "."
    ELSE Len(num) + 1

FractionText(num) == SubSeq(num, PointAt(num) + 1, Len(num))
WholeText(num)    == SubSeq(num, 1, PointAt(num) - 1)

IsDigit(c) == \E d \in 0..9 : DigitChars[d + 1] = c

\* The digits of a text, its separators left out.
DigitsOf(text) ==
    LET ds == SelectSeq(text, IsDigit)
    IN [i \in 1..Len(ds) |-> DigitVal(ds[i])]

\* The hundredths a result denotes: its whole digits, then its fraction
\* filled up to two digits.
Hundredths(out) ==
    LET num  == Number(out)
        frac == DigitsOf(FractionText(num))
    IN StripLeadingZeros(PadLeft(DigitsOf(WholeText(num)) \o frac
                                 \o Zeros(2 - Len(frac)), 1))

\* b = a + 1 on digit sequences, stated digit by digit.
IsSuccessor(a, b) ==
    LET n  == Max(Len(a), Len(b))
        pa == PadLeft(a, n)
        pb == PadLeft(b, n)
    IN \E k \in 1..n :
         /\ pa[k] < 9 /\ pb[k] = pa[k] + 1
         /\ \A i \in 1..(k - 1) : pb[i] = pa[i]
         /\ \A i \in (k + 1)..n : pa[i] = 9 /\ pb[i] = 0

\* The amount in units of 10^8 minor units, rounded down, and the first
\* digit of what that drops.
Above8(str) ==
    LET v == PadLeft(BigInt(str), 9)
    IN StripLeadingZeros(SubSeq(v, 1, Len(v) - 8))
Digit8(str) ==
    LET v == PadLeft(BigInt(str), 9)
    IN v[Len(v) - 7]

\* C9 as claimed: the result is the amount divided by 10^10, rounded to two
\* fractional digits and printed with exactly two fractional digits and
\* nothing but digits before the point, followed by " JOY".
FormatJoyPrintsTwoDecimals ==
    formatted # <<>> =>
        LET num == Number(formatted)
        IN /\ SubSeq(formatted, Len(formatted) - 3, Len(formatted)) = JOY
           /\ Len(FractionText(num)) = 2
           /\ \A i \in 1..Len(WholeText(num)) : IsDigit(WholeText(num)[i])
           /\ raw = Str(<<1,2,3,4,5,6,7,8,9,0,1,2,3,4>>) =>
                formatted = <<"1", "2", "3", "4", ".", "5", "7">> \o JOY
           /\ raw = <<"0">> => formatted = <<"0", ".", "0", "0">> \o JOY
           /\ raw = Str(<<9,9,9,9,9,9,9,9,9,9,5>>) =>
                formatted = <<"1", "0", ".", "0", "0">> \o JOY

\* C9 as amended: the result is the amount divided by 10^10 and rounded,
\* half up, to hundredths, without loss of precision; it is printed with
\* the whole part grouped in threes by commas and with at most two
\* fractional digits, the zeros that would end the fraction (and a bare
\* point) left out, followed by " JOY".
FormatJoyRoundsToHundredths ==
    formatted # <<>> =>
        LET num  == Number(formatted)
            frac == FractionText(num)
            whl  == WholeText(num)
        IN /\ SubSeq(formatted, Len(formatted) - 3, Len(formatted)) = JOY
           /\ Len(frac) <= 2
           /\ \A i \in 1..Len(frac) : IsDigit(frac[i])
           /\ frac # <<>> => frac[Len(frac)] # "0"
           /\ PointAt(num) = Len(num) + 1 \/ frac # <<>>
           /\ whl # <<>>
           /\ \A i \in 1..Len(whl) :
                IF (Len(whl) - i) % 4 = 3 THEN whl[i] = "," ELSE IsDigit(whl[i])
           /\ (Len(whl) > 1 => whl[1] # "0")
           /\ IF Digit8(raw) >= 5
              THEN IsSuccessor(Above8(raw), Hundredths(formatted))
              ELSE Hundredths(formatted) = Above8(raw)
           /\ raw = Str(<<1,2,3,4,5,6,7,8,9,0,1,2,3,4>>) =>
                formatted = <<"1", ",", "2", "3", "4", ".", "5", "7">> \o JOY
           /\ raw = <<"0">> => formatted = <<"0">> \o JOY
           /\ raw = Str(<<9,9,9,9,9,9,9,9,9,9,5>>) => formatted = <<"1", "0">> \o JOY

\* C9 witness: 2^64 minor units have been formatted, as 1,844,674,407.37 JOY.
TwoToThe64Formatted ==
    /\ raw = Str(<<1,8,4,4,6,7,4,4,0,7,3,7,0,9,5,5,1,6,1,6>>)
    /\ formatted = <<"1", ",", "8", "4", "4", ",", "6", "7", "4", ",", "4", "0", "7",
                     ".", "3", "7">> \o JOY

=============================================================================
